---- MODULE Spec2Model ----
(***************************************************************************)
(* Model of the natural-language study search (src/ezredbiom/LLM.py) and   *)
(* of the per-study lookup handlers                                        *)
(* (src/qiita_pet/handlers/api_proxy/custom_study_api.py).                 *)
(*                                                                         *)
(* Python strings are sequences of one-character strings, so that strip,   *)
(* split, lower, replace, json.loads and int() are computed and not        *)
(* assumed.                                                                *)
(***************************************************************************)
EXTENDS Integers, Sequences, FiniteSets, TLC

(***************************************************************************)
(* Python str methods used by the code                                     *)
(***************************************************************************)

\* str.isspace() for one character (the ASCII whitespace the inputs use)
Whitespace == {" ", "\n", "\t", "\r"}

\* The backtick character (a TLA+ string cannot hold it)
Backtick == "U+0060"

Digits == {"0", "1", "2", "3", "4", "5", "6", "7", "8", "9"}

\* s[i:] (1-based i)
Drop(s, i) == SubSeq(s, i, Len(s))

\* the least and the greatest element of a non-empty set of integers
Min(S) == CHOOSE x \in S : \A y \in S : x <= y
Max(S) == CHOOSE x \in S : \A y \in S : y <= x

\* the positions of s that hold no whitespace
Inked(s) == {k \in 1..Len(s) : s[k] \notin Whitespace}

\* str.lstrip()
LStrip(s) == IF Inked(s) = {} THEN <<>> ELSE Drop(s, Min(Inked(s)))

\* str.rstrip()
RStrip(s) == IF Inked(s) = {} THEN <<>> ELSE SubSeq(s, 1, Max(Inked(s)))

\* str.strip()
Strip(s) == RStrip(LStrip(s))

\* s.startswith(p, i) with a 1-based position i
MatchAt(s, p, i) ==
  /\ i + Len(p) - 1 <= Len(s)
  /\ \A k \in 1..Len(p) : s[i + k - 1] = p[k]

\* str.startswith(p)
StartsWith(s, p) == MatchAt(s, p, 1)

\* str.find(p, i): the first position >= i where p occurs, 0 when none
Find(s, p, i) ==
  LET hits == {j \in i..Len(s) : MatchAt(s, p, j)}
  IN  IF hits = {} THEN 0 ELSE Min(hits)

\* s.split(sep)[1], for an s that holds sep at least once
SplitSecond(s, sep) ==
  LET a == Find(s, sep, 1)
      rest == Drop(s, a + Len(sep))
      b == Find(rest, sep, 1)
  IN  IF b = 0 THEN rest ELSE SubSeq(rest, 1, b - 1)

\* str.lower() for one character
LowerChar(c) ==
  CASE c = "A" -> "a"
    [] c = "B" -> "b"
    [] c = "C" -> "c"
    [] c = "D" -> "d"
    [] c = "E" -> "e"
    [] c = "F" -> "f"
    [] c = "G" -> "g"
    [] c = "H" -> "h"
    [] c = "I" -> "i"
    [] c = "J" -> "j"
    [] c = "K" -> "k"
    [] c = "L" -> "l"
    [] c = "M" -> "m"
    [] c = "N" -> "n"
    [] c = "O" -> "o"
    [] c = "P" -> "p"
    [] c = "Q" -> "q"
    [] c = "R" -> "r"
    [] c = "S" -> "s"
    [] c = "T" -> "t"
    [] c = "U" -> "u"
    [] c = "V" -> "v"
    [] c = "W" -> "w"
    [] c = "X" -> "x"
    [] c = "Y" -> "y"
    [] c = "Z" -> "z"
    [] OTHER -> c

\* str.lower()
Lower(s) == [k \in 1..Len(s) |-> LowerChar(s[k])]

\* str.replace(old, ""): the non-overlapping occurrences, left to right
RECURSIVE Remove(_, _)
Remove(s, old) ==
  LET i == Find(s, old, 1) IN
  IF i = 0 THEN s
  ELSE SubSeq(s, 1, i - 1) \o Remove(Drop(s, i + Len(old)), old)

\* str.count(p): the non-overlapping occurrences of p
RECURSIVE Count(_, _)
Count(s, p) ==
  LET i == Find(s, p, 1) IN
  IF i = 0 THEN 0 ELSE 1 + Count(Drop(s, i + Len(p)), p)

(***************************************************************************)
(* json.loads, on the JSON the replies use: objects, arrays, strings with  *)
(* the escapes \" \\ \/ \n \t \r, integers, true, false, null. Fractions,  *)
(* exponents and \b \f \u escapes occur in no reply of the model.          *)
(***************************************************************************)

\* A decoded JSON value. Every value has the same fields; t tells which hold.
JNull == [t |-> "null", s |-> <<>>, n |-> 0, keys |-> <<>>, items |-> <<>>]
JStr(s) == [t |-> "str", s |-> s, n |-> 0, keys |-> <<>>, items |-> <<>>]
JNum(n) == [t |-> "num", s |-> <<>>, n |-> n, keys |-> <<>>, items |-> <<>>]
JBool(b) ==
  [t |-> "bool", s |-> <<>>, n |-> IF b THEN 1 ELSE 0, keys |-> <<>>,
   items |-> <<>>]
JList(items) ==
  [t |-> "list", s |-> <<>>, n |-> 0, keys |-> <<>>, items |-> items]
JDict(keys, items) ==
  [t |-> "dict", s |-> <<>>, n |-> 0, keys |-> keys, items |-> items]

ParseFail == [ok |-> FALSE, v |-> JNull, i |-> 0]
ParseOk(v, i) == [ok |-> TRUE, v |-> v, i |-> i]

DigitVal(c) ==
  CASE c = "0" -> 0 [] c = "1" -> 1 [] c = "2" -> 2 [] c = "3" -> 3
    [] c = "4" -> 4 [] c = "5" -> 5 [] c = "6" -> 6 [] c = "7" -> 7
    [] c = "8" -> 8 [] c = "9" -> 9

\* the position of the first non-whitespace character at or after i
SkipWs(s, i) ==
  LET inked == {j \in i..Len(s) : s[j] \notin Whitespace}
  IN  IF inked = {} THEN (IF i > Len(s) THEN i ELSE Len(s) + 1)
      ELSE Min(inked)

Unescape(c) ==
  CASE c = "n" -> "\n" [] c = "t" -> "\t" [] c = "r" -> "\r" [] OTHER -> c

\* position j of s follows an odd run of backslashes that starts at or after
\* position i: the character there is escaped
Escaped(s, i, j) ==
  LET plain == {k \in i..(j - 1) : s[k] # "\\"}
      run == IF plain = {} THEN j - i ELSE j - 1 - Max(plain)
  IN  run % 2 = 1

\* the k-th element of a set of integers, in increasing order
Nth(S, k) == CHOOSE x \in S : Cardinality({y \in S : y <= x}) = k

\* the body of a JSON string from position i (after the opening quote):
\* [ok, v, i], v the decoded characters and i the position after the
\* closing quote
ScanString(s, i) ==
  LET quotes == {j \in i..Len(s) : s[j] = "\"" /\ ~Escaped(s, i, j)}
      close == Min(quotes)
      inside == i..(close - 1)
      \* the backslashes that introduce an escape, and the rest
      intro == {j \in inside : s[j] = "\\" /\ ~Escaped(s, i, j)}
      kept == inside \ intro
      bad == {j \in inside :
                \/ s[j] \in {"\n", "\t", "\r"}
                \/ /\ j \in intro
                   /\ s[j + 1] \notin {"\"", "\\", "/", "n", "t", "r"}}
      char(j) == IF Escaped(s, i, j) THEN Unescape(s[j]) ELSE s[j]
  IN  IF quotes = {} THEN [ok |-> FALSE, v |-> <<>>, i |-> 0]
      ELSE IF bad # {} THEN [ok |-> FALSE, v |-> <<>>, i |-> 0]
      ELSE [ok |-> TRUE,
            v |-> IF intro = {} THEN SubSeq(s, i, close - 1)
                  ELSE [k \in 1..Cardinality(kept) |-> char(Nth(kept, k))],
            i |-> close + 1]

\* the digits from position i: [n, i]
RECURSIVE ScanDigits(_, _, _)
ScanDigits(s, i, n) ==
  IF i <= Len(s) /\ s[i] \in Digits
    THEN ScanDigits(s, i + 1, 10 * n + DigitVal(s[i]))
    ELSE [n |-> n, i |-> i]

\* -?(0|[1-9][0-9]*)
ScanNumber(s, i) ==
  LET neg == s[i] = "-"
      j == IF neg THEN i + 1 ELSE i
  IN  IF j > Len(s) \/ s[j] \notin Digits THEN ParseFail
      ELSE IF s[j] = "0" THEN ParseOk(JNum(0), j + 1)
      ELSE LET d == ScanDigits(s, j, 0)
           IN  ParseOk(JNum(IF neg THEN 0 - d.n ELSE d.n), d.i)

RECURSIVE ParseValue(_, _)
RECURSIVE ParseItems(_, _, _)
RECURSIVE ParseMembers(_, _, _)

\* one JSON value starting at position i
ParseValue(s, i) ==
  IF i > Len(s) THEN ParseFail
  ELSE
    LET c == s[i] IN
    CASE c = "\"" ->
           LET r == ScanString(s, i + 1)
           IN  IF r.ok THEN ParseOk(JStr(r.v), r.i) ELSE ParseFail
      [] c = "{" ->
           LET j == SkipWs(s, i + 1)
           IN  IF j <= Len(s) /\ s[j] = "}"
                 THEN ParseOk(JDict(<<>>, <<>>), j + 1)
                 ELSE ParseMembers(s, j, JDict(<<>>, <<>>))
      [] c = "[" ->
           LET j == SkipWs(s, i + 1)
           IN  IF j <= Len(s) /\ s[j] = "]"
                 THEN ParseOk(JList(<<>>), j + 1)
                 ELSE ParseItems(s, j, <<>>)
      [] c = "n" ->
           IF MatchAt(s, <<"n", "u", "l", "l">>, i)
             THEN ParseOk(JNull, i + 4) ELSE ParseFail
      [] c = "t" ->
           IF MatchAt(s, <<"t", "r", "u", "e">>, i)
             THEN ParseOk(JBool(TRUE), i + 4) ELSE ParseFail
      [] c = "f" ->
           IF MatchAt(s, <<"f", "a", "l", "s", "e">>, i)
             THEN ParseOk(JBool(FALSE), i + 5) ELSE ParseFail
      [] c \in Digits \cup {"-"} -> ScanNumber(s, i)
      [] OTHER -> ParseFail

\* the values of an array after "[", the next one starting at position i
ParseItems(s, i, acc) ==
  LET r == ParseValue(s, i) IN
  IF ~r.ok THEN ParseFail
  ELSE
    LET j == SkipWs(s, r.i) IN
    IF j > Len(s) THEN ParseFail
    ELSE IF s[j] = "]" THEN ParseOk(JList(Append(acc, r.v)), j + 1)
    ELSE IF s[j] = "," THEN ParseItems(s, SkipWs(s, j + 1), Append(acc, r.v))
    ELSE ParseFail

\* d[k] = v for a dict d: a key already there keeps its place
DictSet(d, k, v) ==
  LET at == {i \in 1..Len(d.keys) : d.keys[i] = k} IN
  IF at = {} THEN JDict(Append(d.keys, k), Append(d.items, v))
  ELSE JDict(d.keys, [i \in 1..Len(d.items) |->
                        IF i \in at THEN v ELSE d.items[i]])

\* the members of an object after "{", the next key starting at position i
ParseMembers(s, i, d) ==
  IF i > Len(s) \/ s[i] # "\"" THEN ParseFail
  ELSE
    LET k == ScanString(s, i + 1) IN
    IF ~k.ok THEN ParseFail
    ELSE
      LET j == SkipWs(s, k.i) IN
      IF j > Len(s) \/ s[j] # ":" THEN ParseFail
      ELSE
        LET r == ParseValue(s, SkipWs(s, j + 1)) IN
        IF ~r.ok THEN ParseFail
        ELSE
          LET m == SkipWs(s, r.i) IN
          IF m > Len(s) THEN ParseFail
          ELSE IF s[m] = "}" THEN ParseOk(DictSet(d, k.v, r.v), m + 1)
          ELSE IF s[m] = ","
            THEN ParseMembers(s, SkipWs(s, m + 1), DictSet(d, k.v, r.v))
          ELSE ParseFail

\* json.loads(s): ok is FALSE where json.JSONDecodeError is raised
JsonLoads(s) ==
  LET r == ParseValue(s, SkipWs(s, 1)) IN
  IF r.ok /\ SkipWs(s, r.i) = Len(s) + 1 THEN r ELSE ParseFail

(***************************************************************************)
(* Python values: subscription, truth value, str() and repr()              *)
(***************************************************************************)

\* v[key] for a str key: [ok, exc, v]
GetItem(v, key) ==
  IF v.t = "dict"
    THEN LET hits == {i \in 1..Len(v.keys) : v.keys[i] = key}
         IN  IF hits = {}
               THEN [ok |-> FALSE, exc |-> "KeyError", v |-> JNull]
               ELSE [ok |-> TRUE, exc |-> "", v |-> v.items[Min(hits)]]
    ELSE [ok |-> FALSE, exc |-> "TypeError", v |-> JNull]

\* bool(v)
Truthy(v) ==
  CASE v.t = "str" -> v.s # <<>>
    [] v.t = "num" -> v.n # 0
    [] v.t = "bool" -> v.n = 1
    [] v.t = "list" -> v.items # <<>>
    [] v.t = "dict" -> v.keys # <<>>
    [] OTHER -> FALSE

DigitChar(d) ==
  CASE d = 0 -> "0" [] d = 1 -> "1" [] d = 2 -> "2" [] d = 3 -> "3"
    [] d = 4 -> "4" [] d = 5 -> "5" [] d = 6 -> "6" [] d = 7 -> "7"
    [] d = 8 -> "8" [] d = 9 -> "9"

RECURSIVE NatToStr(_)
NatToStr(n) ==
  IF n < 10 THEN <<DigitChar(n)>>
  ELSE NatToStr(n \div 10) \o <<DigitChar(n % 10)>>

\* str(n) for an int
IntToStr(n) == IF n < 0 THEN <<"-">> \o NatToStr(0 - n) ELSE NatToStr(n)

\* one character of repr(s) inside the quotes q
ReprChar(c, q) ==
  CASE c = "\\" -> <<"\\", "\\">>
    [] c = "\n" -> <<"\\", "n">>
    [] c = "\t" -> <<"\\", "t">>
    [] c = "\r" -> <<"\\", "r">>
    [] c = q -> <<"\\", q>>
    [] OTHER -> <<c>>

RECURSIVE ReprChars(_, _)
ReprChars(s, q) ==
  IF s = <<>> THEN <<>> ELSE ReprChar(Head(s), q) \o ReprChars(Tail(s), q)

\* repr(s) for a str: double quotes only when s holds ' and no "
ReprStr(s) ==
  LET has(c) == \E k \in 1..Len(s) : s[k] = c
      q == IF has("'") /\ ~has("\"") THEN "\"" ELSE "'"
  IN  <<q>> \o ReprChars(s, q) \o <<q>>

RECURSIVE Repr(_)
RECURSIVE ReprJoin(_, _)

\* repr(v)
Repr(v) ==
  CASE v.t = "str" -> ReprStr(v.s)
    [] v.t = "num" -> IntToStr(v.n)
    [] v.t = "bool" ->
         IF v.n = 1 THEN <<"T", "r", "u", "e">>
         ELSE <<"F", "a", "l", "s", "e">>
    [] v.t = "list" -> <<"[">> \o ReprJoin(v, 1) \o <<"]">>
    [] v.t = "dict" -> <<"{">> \o ReprJoin(v, 1) \o <<"}">>
    [] OTHER -> <<"N", "o", "n", "e">>

\* the items of a list or dict from the i-th on, separated by ", "
ReprJoin(v, i) ==
  IF i > Len(v.items) THEN <<>>
  ELSE (IF v.t = "dict" THEN ReprStr(v.keys[i]) \o <<":", " ">> ELSE <<>>)
       \o Repr(v.items[i])
       \o (IF i < Len(v.items) THEN <<",", " ">> ELSE <<>>)
       \o ReprJoin(v, i + 1)

\* str(v), what an f-string puts for {v}
PyStr(v) == IF v.t = "str" THEN v.s ELSE Repr(v)

(***************************************************************************)
(* src/ezredbiom/LLM.py: llm_query_to_sql                                  *)
(***************************************************************************)

\* where_clause
WHERE_CLAUSE ==
  <<"w", "h", "e", "r", "e", "_", "c", "l", "a", "u", "s", "e">>

\* params
PARAMS ==
  <<"p", "a", "r", "a", "m", "s">>

\* (backtick)(backtick)(backtick)
FENCE ==
  <<Backtick, Backtick, Backtick>>

\* json
JSON_TAG ==
  <<"j", "s", "o", "n">>

\* find
FIND ==
  <<"f", "i", "n", "d">>

\* studies
STUDIES ==
  <<"s", "t", "u", "d", "i", "e", "s">>

\* about
ABOUT ==
  <<"a", "b", "o", "u", "t">>

\* (s.study_title ILIKE %s OR s.study_abstract ILIKE %s)
FallbackClause ==
  <<"(", "s", ".", "s", "t", "u", "d", "y", "_", "t", "i", "t", "l", "e", " ",
    "I", "L", "I", "K", "E", " ", "%", "s", " ", "O", "R", " ", "s", ".", "s",
    "t", "u", "d", "y", "_", "a", "b", "s", "t", "r", "a", "c", "t", " ", "I",
    "L", "I", "K", "E", " ", "%", "s", ")">>

\* lines 112-119: the reply stripped, and its code fence removed
CleanResponse(content) ==
  LET stripped == Strip(content) IN
  IF StartsWith(stripped, FENCE)
    THEN LET inner == SplitSecond(stripped, FENCE)
             body == IF StartsWith(inner, JSON_TAG) THEN Drop(inner, 5)
                     ELSE inner
         IN  Strip(body)
    ELSE stripped

\* line 127: the keywords of the query
Keywords(user_query) ==
  Strip(Remove(Remove(Remove(Lower(user_query), FIND), STUDIES), ABOUT))

\* f"%{keywords}%"
Wildcard(keywords) == <<"%">> \o keywords \o <<"%">>

\* FallbackFilter with the parameter given once for the two placeholders
FallbackFilter_OneParam(user_query) ==
  LET keywords == Keywords(user_query) IN
  JDict(<<WHERE_CLAUSE, PARAMS>>,
        <<JStr(FallbackClause), JList(<<JStr(Wildcard(keywords))>>)>>)

\* lines 128-131: the dict returned when the reply is not JSON
FallbackFilter(user_query) ==
  LET keywords == Keywords(user_query) IN
  JDict(<<WHERE_CLAUSE, PARAMS>>,
        <<JStr(FallbackClause),
          JList(<<JStr(Wildcard(keywords)), JStr(Wildcard(keywords))>>)>>)

\* lines 112-131: what llm_query_to_sql returns for the reply text content
LlmResult(user_query, content) ==
  LET r == JsonLoads(CleanResponse(content)) IN
  IF r.ok THEN [path |-> "model", v |-> r.v]
  ELSE [path |-> "fallback", v |-> FallbackFilter(user_query)]

(***************************************************************************)
(* src/ezredbiom/LLM.py: search_studies_with_sql                           *)
(***************************************************************************)

\* 1=1
TRUE_PREDICATE ==
  <<"1", "=", "1">>

\* lines 35-36: params defaults to the empty list when it is None
ParamsOrEmpty(p) == IF p.t = "null" THEN JList(<<>>) ELSE p

\* line 52: the text put after WHERE in the query
WherePredicate(custom_sql_where) ==
  IF Truthy(custom_sql_where) THEN PyStr(custom_sql_where)
  ELSE TRUE_PREDICATE

(***************************************************************************)
(* Inputs: the user queries and the replies of the model endpoint          *)
(***************************************************************************)

\* the longest generated query / study identifier
MaxQueryLen == 3
MaxIdLen == 2

SeqsUpTo(A, n) == UNION {[1..k -> A] : k \in 0..n}

\* 
Q_EMPTY ==
  <<>>

\* studies about soil microbiome
Q_SOIL_MICROBIOME ==
  <<"s", "t", "u", "d", "i", "e", "s", " ", "a", "b", "o", "u", "t", " ", "s",
    "o", "i", "l", " ", "m", "i", "c", "r", "o", "b", "i", "o", "m", "e">>

\* Find studies about soil
Q_FIND_SOIL ==
  <<"F", "i", "n", "d", " ", "s", "t", "u", "d", "i", "e", "s", " ", "a", "b",
    "o", "u", "t", " ", "s", "o", "i", "l">>

\* abfindout
Q_NESTED ==
  <<"a", "b", "f", "i", "n", "d", "o", "u", "t">>

\* fistudiesnd
Q_REBUILT ==
  <<"f", "i", "s", "t", "u", "d", "i", "e", "s", "n", "d">>

\* x'; DROP TABLE qiita.study; --
Q_INJECT ==
  <<"x", "'", ";", " ", "D", "R", "O", "P", " ", "T", "A", "B", "L", "E", " ",
    "q", "i", "i", "t", "a", ".", "s", "t", "u", "d", "y", ";", " ", "-", "-">>

\* soil" OR 1=1 --
Q_QUOTE ==
  <<"s", "o", "i", "l", "\"", " ", "O", "R", " ", "1", "=", "1", " ", "-", "-">>

\* Studies by Rob Knight
Q_ROB ==
  <<"S", "t", "u", "d", "i", "e", "s", " ", "b", "y", " ", "R", "o", "b", " ",
    "K", "n", "i", "g", "h", "t">>

QueryAlphabet == {"a", "F", " ", "'"}

Queries ==
  {Q_EMPTY, Q_SOIL_MICROBIOME, Q_FIND_SOIL, Q_NESTED,
   Q_REBUILT, Q_INJECT, Q_QUOTE, Q_ROB}
    \cup SeqsUpTo(QueryAlphabet, MaxQueryLen)

\* {"where_clause": "sp_pi.name ILIKE %s", "params": ["%Rob Knight%"]}
R_VALID ==
  <<"{", "\"", "w", "h", "e", "r", "e", "_", "c", "l", "a", "u", "s", "e",
    "\"", ":", " ", "\"", "s", "p", "_", "p", "i", ".", "n", "a", "m", "e",
    " ", "I", "L", "I", "K", "E", " ", "%", "s", "\"", ",", " ", "\"", "p",
    "a", "r", "a", "m", "s", "\"", ":", " ", "[", "\"", "%", "R", "o", "b",
    " ", "K", "n", "i", "g", "h", "t", "%", "\"", "]", "}">>

\* (backtick)(backtick)(backtick)json\n{"where_clause": "(s.study_title ILIKE %s OR s.study_abstract ILIKE %s)", "params": ["%soil%", "%soil%"]}\n(backtick)(backtick)(backtick)
R_FENCED ==
  <<Backtick, Backtick, Backtick, "j", "s", "o", "n", "\n", "{", "\"", "w",
    "h", "e", "r", "e", "_", "c", "l", "a", "u", "s", "e", "\"", ":", " ",
    "\"", "(", "s", ".", "s", "t", "u", "d", "y", "_", "t", "i", "t", "l",
    "e", " ", "I", "L", "I", "K", "E", " ", "%", "s", " ", "O", "R", " ", "s",
    ".", "s", "t", "u", "d", "y", "_", "a", "b", "s", "t", "r", "a", "c", "t",
    " ", "I", "L", "I", "K", "E", " ", "%", "s", ")", "\"", ",", " ", "\"",
    "p", "a", "r", "a", "m", "s", "\"", ":", " ", "[", "\"", "%", "s", "o",
    "i", "l", "%", "\"", ",", " ", "\"", "%", "s", "o", "i", "l", "%", "\"",
    "]", "}", "\n", Backtick, Backtick, Backtick>>

\* Sorry, I cannot help with that.
R_PROSE ==
  <<"S", "o", "r", "r", "y", ",", " ", "I", " ", "c", "a", "n", "n", "o", "t",
    " ", "h", "e", "l", "p", " ", "w", "i", "t", "h", " ", "t", "h", "a", "t",
    ".">>

\* [1]
R_LIST ==
  <<"[", "1", "]">>

\* 7
R_NUMBER ==
  <<"7">>

\* "s.study_id = 1"
R_STRING ==
  <<"\"", "s", ".", "s", "t", "u", "d", "y", "_", "i", "d", " ", "=", " ",
    "1", "\"">>

\* {"params": []}
R_NO_CLAUSE ==
  <<"{", "\"", "p", "a", "r", "a", "m", "s", "\"", ":", " ", "[", "]", "}">>

\* {"where_clause": "s.study_id = %s"}
R_NO_PARAMS ==
  <<"{", "\"", "w", "h", "e", "r", "e", "_", "c", "l", "a", "u", "s", "e",
    "\"", ":", " ", "\"", "s", ".", "s", "t", "u", "d", "y", "_", "i", "d",
    " ", "=", " ", "%", "s", "\"", "}">>

\* {"where_clause": "s.study_title ILIKE %s", "params": []}
R_MISMATCH ==
  <<"{", "\"", "w", "h", "e", "r", "e", "_", "c", "l", "a", "u", "s", "e",
    "\"", ":", " ", "\"", "s", ".", "s", "t", "u", "d", "y", "_", "t", "i",
    "t", "l", "e", " ", "I", "L", "I", "K", "E", " ", "%", "s", "\"", ",",
    " ", "\"", "p", "a", "r", "a", "m", "s", "\"", ":", " ", "[", "]", "}">>

\* {"where_clause": 5, "params": "x"}
R_WRONG_TYPES ==
  <<"{", "\"", "w", "h", "e", "r", "e", "_", "c", "l", "a", "u", "s", "e",
    "\"", ":", " ", "5", ",", " ", "\"", "p", "a", "r", "a", "m", "s", "\"",
    ":", " ", "\"", "x", "\"", "}">>

\* {"where_clause": "s.study_id > 0", "params": null}
R_NULL_PARAMS ==
  <<"{", "\"", "w", "h", "e", "r", "e", "_", "c", "l", "a", "u", "s", "e",
    "\"", ":", " ", "\"", "s", ".", "s", "t", "u", "d", "y", "_", "i", "d",
    " ", ">", " ", "0", "\"", ",", " ", "\"", "p", "a", "r", "a", "m", "s",
    "\"", ":", " ", "n", "u", "l", "l", "}">>

\* {"where_clause": "a.artifact_id = %s", "params": [1]}
R_OFF_LIST ==
  <<"{", "\"", "w", "h", "e", "r", "e", "_", "c", "l", "a", "u", "s", "e",
    "\"", ":", " ", "\"", "a", ".", "a", "r", "t", "i", "f", "a", "c", "t",
    "_", "i", "d", " ", "=", " ", "%", "s", "\"", ",", " ", "\"", "p", "a",
    "r", "a", "m", "s", "\"", ":", " ", "[", "1", "]", "}">>

\* {"where_clause": "", "params": []}
R_EMPTY_CLAUSE ==
  <<"{", "\"", "w", "h", "e", "r", "e", "_", "c", "l", "a", "u", "s", "e",
    "\"", ":", " ", "\"", "\"", ",", " ", "\"", "p", "a", "r", "a", "m", "s",
    "\"", ":", " ", "[", "]", "}">>

\* (backtick)(backtick)(backtick)
R_FENCE_ONLY ==
  <<Backtick, Backtick, Backtick>>

\* 
R_EMPTY ==
  <<>>

\* a reply that follows rule 2 of the system prompt (lines 83-84) and puts
\* the text of the query into the clause as a literal
\* {"where_clause": "s.study_title ILIKE '%
ECHO_HEAD ==
  <<"{", "\"", "w", "h", "e", "r", "e", "_", "c", "l", "a", "u", "s", "e",
    "\"", ":", " ", "\"", "s", ".", "s", "t", "u", "d", "y", "_", "t", "i",
    "t", "l", "e", " ", "I", "L", "I", "K", "E", " ", "'", "%">>

\* %'", "params": []}
ECHO_TAIL ==
  <<"%", "'", "\"", ",", " ", "\"", "p", "a", "r", "a", "m", "s", "\"", ":",
    " ", "[", "]", "}">>

EchoReply(user_query) == ECHO_HEAD \o user_query \o ECHO_TAIL

\* lines 104-112: the texts message.choices[0].message.content may hold
Replies(user_query) ==
  {R_VALID, R_FENCED, R_PROSE, R_LIST,
   R_NUMBER, R_STRING, R_NO_CLAUSE, R_NO_PARAMS,
   R_MISMATCH, R_WRONG_TYPES, R_NULL_PARAMS, R_OFF_LIST,
   R_EMPTY_CLAUSE, R_FENCE_ONLY, R_EMPTY,
   EchoReply(user_query)}

(***************************************************************************)
(* State                                                                   *)
(***************************************************************************)

VARIABLES
  pc,               \* where smart_search_studies is
  user_query,       \* its argument
  llm,              \* the call of client.chat.completions.create
  content,          \* the reply text
  path,             \* which return of llm_query_to_sql was taken
  sql_query,        \* what llm_query_to_sql returned
  custom_sql_where, \* the arguments of search_studies_with_sql
  params,
  where_predicate,  \* the text after WHERE in the query sent
  trn,              \* inside the `with TRN:` block
  results,          \* what TRN.execute_fetchindex() returned
  model_calls,      \* calls of the model endpoint so far
  store_queries,    \* queries sent to the store so far
  outcome,          \* how smart_search_studies ended
  handler,          \* the lookup handler serving the request
  study_id,         \* its path argument
  status,           \* the HTTP status of the response
  body              \* the JSON written

searchVars ==
  <<pc, user_query, llm, content, path, sql_query, custom_sql_where, params,
    where_predicate, trn, results, model_calls, store_queries, outcome>>

lookupVars == <<handler, study_id, status, body>>

vars == <<searchVars, lookupVars>>

Init ==
  /\ pc = "idle"
  /\ user_query = <<>>
  /\ llm = "none"
  /\ content = <<>>
  /\ path = "none"
  /\ sql_query = JNull
  /\ custom_sql_where = JNull
  /\ params = JNull
  /\ where_predicate = <<>>
  /\ trn = FALSE
  /\ results = "none"
  /\ model_calls = 0
  /\ store_queries = 0
  /\ outcome = "none"
  /\ handler = "none"
  /\ study_id = <<>>
  /\ status = 0
  /\ body = [kind |-> "none", study_id |-> 0]

(***************************************************************************)
(* smart_search_studies, step by step                                      *)
(***************************************************************************)

\* lines 148-151 and 104: the query arrives and the model endpoint is called
SmartSearchStart ==
  /\ pc = "idle"
  /\ \E q \in Queries : user_query' = q
  /\ llm' = "pending"
  /\ model_calls' = model_calls + 1
  /\ pc' = "llm"
  /\ UNCHANGED <<content, path, sql_query, custom_sql_where, params,
                 where_predicate, trn, results, store_queries, outcome>>
  /\ UNCHANGED lookupVars

\* lines 104-110, 151: create raises; neither function catches it
CreateRaises ==
  /\ pc = "llm"
  /\ llm' = "failed"
  /\ outcome' = "RemoteError"
  /\ pc' = "done"
  /\ UNCHANGED <<user_query, content, path, sql_query, custom_sql_where,
                 params, where_predicate, trn, results, model_calls,
                 store_queries>>
  /\ UNCHANGED lookupVars

\* lines 104-131, 151: create returns a reply and llm_query_to_sql returns
CreateReturns ==
  /\ pc = "llm"
  /\ \E c \in Replies(user_query) :
       LET r == LlmResult(user_query, c) IN
       /\ content' = c
       /\ path' = r.path
       /\ sql_query' = r.v
  /\ llm' = "replied"
  /\ pc' = "have_sql"
  /\ UNCHANGED <<user_query, custom_sql_where, params, where_predicate, trn,
                 results, model_calls, store_queries, outcome>>
  /\ UNCHANGED lookupVars

\* lines 154-155: the exception of sql_query['where_clause'] or
\* sql_query['params'], "" when neither raises
SubscriptError(v) ==
  LET w == GetItem(v, WHERE_CLAUSE)
      p == GetItem(v, PARAMS)
  IN  IF ~w.ok THEN w.exc ELSE IF ~p.ok THEN p.exc ELSE ""

\* lines 153-155: a subscription raises and smart_search_studies ends
SubscriptRaises ==
  /\ pc = "have_sql"
  /\ SubscriptError(sql_query) # ""
  /\ outcome' = SubscriptError(sql_query)
  /\ pc' = "done"
  /\ UNCHANGED <<user_query, llm, content, path, sql_query, custom_sql_where,
                 params, where_predicate, trn, results, model_calls,
                 store_queries>>
  /\ UNCHANGED lookupVars

\* lines 153-161, 35-52: search_studies_with_sql is called and enters TRN
CallSearch ==
  /\ pc = "have_sql"
  /\ SubscriptError(sql_query) = ""
  /\ custom_sql_where' = GetItem(sql_query, WHERE_CLAUSE).v
  /\ params' = ParamsOrEmpty(GetItem(sql_query, PARAMS).v)
  /\ where_predicate' = WherePredicate(GetItem(sql_query, WHERE_CLAUSE).v)
  /\ trn' = TRUE
  /\ pc' = "in_trn"
  /\ UNCHANGED <<user_query, llm, content, path, sql_query, results,
                 model_calls, store_queries, outcome>>
  /\ UNCHANGED lookupVars

\* lines 56-57: the query runs and the rows (or none) are fetched
TrnExecute ==
  /\ pc = "in_trn"
  /\ \E r \in {"rows", "no_rows"} : results' = r
  /\ store_queries' = store_queries + 1
  /\ pc' = "fetched"
  /\ UNCHANGED <<user_query, llm, content, path, sql_query, custom_sql_where,
                 params, where_predicate, trn, model_calls, outcome>>
  /\ UNCHANGED lookupVars

\* TrnExecuteRaises for a scope entered and left by hand, without finally:
\* the exception skips the exit
TrnExecuteRaises_LeaksScope ==
  /\ pc = "in_trn"
  /\ store_queries' = store_queries + 1
  /\ outcome' = "StoreError"
  /\ pc' = "done"
  /\ UNCHANGED <<user_query, llm, content, path, sql_query, custom_sql_where,
                 params, where_predicate, trn, results, model_calls>>
  /\ UNCHANGED lookupVars

\* lines 38, 56-57: the store raises; the with statement leaves TRN and the
\* exception goes to the caller of smart_search_studies
TrnExecuteRaises ==
  /\ pc = "in_trn"
  /\ store_queries' = store_queries + 1
  /\ trn' = FALSE
  /\ outcome' = "StoreError"
  /\ pc' = "done"
  /\ UNCHANGED <<user_query, llm, content, path, sql_query, custom_sql_where,
                 params, where_predicate, results, model_calls>>
  /\ UNCHANGED lookupVars

\* lines 57-67, 163: the with block ends and the frame is returned
SearchReturns ==
  /\ pc = "fetched"
  /\ trn' = FALSE
  /\ outcome' = IF results = "rows" THEN "df" ELSE "empty_df"
  /\ pc' = "done"
  /\ UNCHANGED <<user_query, llm, content, path, sql_query, custom_sql_where,
                 params, where_predicate, results, model_calls,
                 store_queries>>
  /\ UNCHANGED lookupVars

Next ==
  \/ SmartSearchStart
  \/ CreateRaises
  \/ CreateReturns
  \/ SubscriptRaises
  \/ CallSearch
  \/ TrnExecute
  \/ TrnExecuteRaises
  \/ SearchReturns

Spec == Init /\ [][Next]_vars

(***************************************************************************)
(* src/qiita_pet/handlers/api_proxy/custom_study_api.py                    *)
(***************************************************************************)

\* int(s) accepts s: whitespace around, an optional sign, then digits with
\* single underscores between them
IsPyInt(s) ==
  LET t == Strip(s)
      u == IF t # <<>> /\ Head(t) \in {"+", "-"} THEN Tail(t) ELSE t
  IN  /\ u # <<>>
      /\ \A k \in 1..Len(u) : u[k] \in Digits \cup {"_"}
      /\ u[1] \in Digits
      /\ u[Len(u)] \in Digits
      /\ \A k \in 1..(Len(u) - 1) : ~(u[k] = "_" /\ u[k + 1] = "_")

\* int(s) for an s that IsPyInt accepts
PyInt(s) ==
  LET t == Strip(s)
      neg == Head(t) = "-"
      u == IF Head(t) \in {"+", "-"} THEN Tail(t) ELSE t
      d == SelectSeq(u, LAMBDA c : c \in Digits)
      n == ScanDigits(d, 1, 0).n
  IN  IF neg THEN 0 - n ELSE n

\* the identifiers of the studies in the store
StoredStudies == {1, 12}

IdAlphabet == {"1", "2", "x", "-", " ", "_"}

\* the study_id path arguments a request may carry
IdStrings == SeqsUpTo(IdAlphabet, MaxIdLen)

\* what reading the attributes of a stored study may do
Loads == {"ok", "AttributeError", "Exception"}

\* lines 26-27, 72-73, 141-142: int(study_id) and Study(study_id); the
\* exception raised, or "" when the study is built
BuildStudy(arg) ==
  IF ~IsPyInt(arg) THEN "ValueError"
  ELSE IF PyInt(arg) \notin StoredStudies THEN "QiitaDBUnknownIDError"
  ELSE ""

\* the study_id named in a response: the int once int() has returned
IdOf(arg) == IF IsPyInt(arg) THEN PyInt(arg) ELSE 0

\* StudyAbstractAPIHandler.get, lines 25-52: status and JSON body
AbstractResponse(arg, load) ==
  LET exc == IF BuildStudy(arg) # "" THEN BuildStudy(arg)
             ELSE IF load = "ok" THEN "" ELSE load
  IN  CASE exc = "" ->
             [status |-> 200, kind |-> "abstract", study_id |-> IdOf(arg)]
        [] exc = "QiitaDBUnknownIDError" ->
             [status |-> 404, kind |-> "not_found", study_id |-> IdOf(arg)]
        [] exc = "ValueError" ->
             [status |-> 400, kind |-> "invalid_id", study_id |-> 0]
        [] exc = "AttributeError" ->
             [status |-> 500, kind |-> "attribute_error", study_id |-> 0]
        [] OTHER ->
             [status |-> 500, kind |-> "unexpected_error", study_id |-> 0]

\* StudyDetailAPIHandler.get, lines 71-121: hasattr() turns an
\* AttributeError of study.info, study.title or study.status into a default
DetailResponse(arg, load) ==
  LET exc == IF BuildStudy(arg) # "" THEN BuildStudy(arg)
             ELSE IF load \in {"ok", "AttributeError"} THEN "" ELSE load
  IN  CASE exc = "" ->
             [status |-> 200,
              kind |-> IF load = "ok" THEN "detail" ELSE "detail_defaults",
              study_id |-> IdOf(arg)]
        [] exc = "QiitaDBUnknownIDError" ->
             [status |-> 404, kind |-> "not_found", study_id |-> IdOf(arg)]
        [] exc = "ValueError" ->
             [status |-> 400, kind |-> "invalid_id", study_id |-> 0]
        [] OTHER ->
             [status |-> 500, kind |-> "error_retrieving_study",
              study_id |-> 0]

\* StudyAuthorsAPIHandler.get, lines 140-161: no except ValueError clause
AuthorsResponse(arg, load) ==
  LET exc == IF BuildStudy(arg) # "" THEN BuildStudy(arg)
             ELSE IF load \in {"ok", "AttributeError"} THEN "" ELSE load
  IN  CASE exc = "" ->
             [status |-> 200,
              kind |-> IF load = "ok" THEN "authors" ELSE "authors_defaults",
              study_id |-> IdOf(arg)]
        [] exc = "QiitaDBUnknownIDError" ->
             [status |-> 404, kind |-> "not_found", study_id |-> IdOf(arg)]
        [] OTHER ->
             [status |-> 500, kind |-> "error_retrieving_authors",
              study_id |-> 0]

\* StudyAbstractAPIHandler.get, lines 12-52: one GET request served
StudyAbstractGet ==
  /\ handler = "none"
  /\ \E arg \in IdStrings, load \in Loads :
       LET r == AbstractResponse(arg, load) IN
       /\ study_id' = arg
       /\ status' = r.status
       /\ body' = [kind |-> r.kind, study_id |-> r.study_id]
  /\ handler' = "abstract"
  /\ UNCHANGED searchVars

\* StudyDetailAPIHandler.get, lines 58-121: one GET request served
StudyDetailGet ==
  /\ handler = "none"
  /\ \E arg \in IdStrings, load \in Loads :
       LET r == DetailResponse(arg, load) IN
       /\ study_id' = arg
       /\ status' = r.status
       /\ body' = [kind |-> r.kind, study_id |-> r.study_id]
  /\ handler' = "detail"
  /\ UNCHANGED searchVars

\* StudyAuthorsAPIHandler.get, lines 127-161: one GET request served
StudyAuthorsGet ==
  /\ handler = "none"
  /\ \E arg \in IdStrings, load \in Loads :
       LET r == AuthorsResponse(arg, load) IN
       /\ study_id' = arg
       /\ status' = r.status
       /\ body' = [kind |-> r.kind, study_id |-> r.study_id]
  /\ handler' = "authors"
  /\ UNCHANGED searchVars

LookupNext ==
  \/ StudyAbstractGet
  \/ StudyDetailGet
  \/ StudyAuthorsGet

LookupSpec == Init /\ [][LookupNext]_vars

(***************************************************************************)
(* Properties                                                              *)
(***************************************************************************)

\* the positional placeholder of the store's parameter binding
PLACEHOLDER ==
  <<"%", "s">>

\* search_studies_with_sql has been called
Called ==
  \/ pc \in {"in_trn", "fetched"}
  \/ pc = "done" /\ outcome \in {"df", "empty_df", "StoreError"}

\* the filter passed to search_studies_with_sql is the filter f
FilterIs(f) ==
  /\ custom_sql_where = GetItem(f, WHERE_CLAUSE).v
  /\ params = GetItem(f, PARAMS).v

\* v is an object with a string where_clause and a list params, as many
\* placeholders in the one as elements in the other
StructurallyValid(v) ==
  LET w == GetItem(v, WHERE_CLAUSE)
      p == GetItem(v, PARAMS)
  IN  /\ w.ok /\ p.ok
      /\ w.v.t = "str"
      /\ p.v.t = "list"
      /\ Count(w.v.s, PLACEHOLDER) = Len(p.v.items)

\* the reply text parses to a structurally valid filter
ReplyValid(c) ==
  LET r == JsonLoads(CleanResponse(c)) IN r.ok /\ StructurallyValid(r.v)

\* s holds a quote, a semicolon or a comment marker
HasControlSyntax(s) ==
  \/ \E k \in 1..Len(s) : s[k] \in {"'", "\"", ";"}
  \/ Find(s, <<"-", "-">>, 1) # 0

Letters ==
  {"a", "b", "c", "d", "e", "f", "g", "h", "i", "j", "k", "l", "m", "n", "o",
   "p", "q", "r", "s", "t", "u", "v", "w", "x", "y", "z", "A", "B", "C", "D",
   "E", "F", "G", "H", "I", "J", "K", "L", "M", "N", "O", "P", "Q", "R", "S",
   "T", "U", "V", "W", "X", "Y", "Z"}

IdentChars == Letters \cup Digits \cup {"_", "."}

\* s.study_id
COL_STUDY_ID ==
  <<"s", ".", "s", "t", "u", "d", "y", "_", "i", "d">>

\* s.study_title
COL_TITLE ==
  <<"s", ".", "s", "t", "u", "d", "y", "_", "t", "i", "t", "l", "e">>

\* s.study_abstract
COL_ABSTRACT ==
  <<"s", ".", "s", "t", "u", "d", "y", "_", "a", "b", "s", "t", "r", "a", "c",
    "t">>

\* sp_pi.name
COL_PI_NAME ==
  <<"s", "p", "_", "p", "i", ".", "n", "a", "m", "e">>

\* sp_pi.email
COL_PI_EMAIL ==
  <<"s", "p", "_", "p", "i", ".", "e", "m", "a", "i", "l">>

\* sp_pi.affiliation
COL_PI_AFFILIATION ==
  <<"s", "p", "_", "p", "i", ".", "a", "f", "f", "i", "l", "i", "a", "t", "i",
    "o", "n">>

\* sp_lab.name
COL_LAB_NAME ==
  <<"s", "p", "_", "l", "a", "b", ".", "n", "a", "m", "e">>

\* v.visibility
COL_VISIBILITY ==
  <<"v", ".", "v", "i", "s", "i", "b", "i", "l", "i", "t", "y">>

\* the columns a filter clause may reference
AllowedColumns ==
  {COL_STUDY_ID, COL_TITLE, COL_ABSTRACT, COL_PI_NAME, COL_PI_EMAIL,
   COL_PI_AFFILIATION, COL_LAB_NAME, COL_VISIBILITY}

\* the qualified names (identifiers holding a dot) that the clause s holds
QualifiedNames(s) ==
  LET ident(k) == k \in 1..Len(s) /\ s[k] \in IdentChars
      starts == {a \in 1..Len(s) : ident(a) /\ ~ident(a - 1)}
      stop(a) == Min({b \in a..Len(s) : ~ident(b + 1)})
      names == {SubSeq(s, a, stop(a)) : a \in starts}
  IN  {n \in names : \E k \in 1..Len(n) : n[k] = "."}

\* every column the clause references is on the allow-list
ClauseAllowed(s) == QualifiedNames(s) \subseteq AllowedColumns

\* C1: whatever text the model replies, smart_search_studies ends by
\* returning a result and never by an exception raised over the shape of the
\* reply (a TypeError or KeyError of the subscriptions).
C1_NoRaiseOnReplyShape ==
  (pc = "done" /\ llm = "replied") => outcome \notin {"TypeError", "KeyError"}

\* C2: when the model call itself fails, the failure is not surfaced: the
\* fallback filter of the same query is passed to the store accessor, and
\* the model endpoint was called exactly once.
C2_RemoteFailureRecovered ==
  (pc = "done" /\ llm = "failed") =>
    /\ model_calls = 1
    /\ outcome # "RemoteError"
    /\ Called
    /\ FilterIs(FallbackFilter(user_query))

\* C3: whenever the reply is unparseable or structurally invalid, the filter
\* passed to search_studies_with_sql is the fallback filter of the query.
C3_InvalidReplyUsesFallback ==
  (llm = "replied" /\ ~ReplyValid(content)
     /\ pc \in {"in_trn", "fetched", "done"}) =>
    /\ Called
    /\ FilterIs(FallbackFilter(user_query))

\* C4: in every call of search_studies_with_sql the number of %s
\* placeholders of the clause equals the length of the parameter list.
C4_PlaceholderCount ==
  Called =>
    /\ params.t = "list"
    /\ Count(where_predicate, PLACEHOLDER) = Len(params.items)

\* C5: for a query holding quotes, semicolons or comment markers, the clause
\* text put into the SQL template holds none of them, whatever the reply.
C5_ControlSyntaxOnlyInParams ==
  (Called /\ HasControlSyntax(user_query)) => ~HasControlSyntax(where_predicate)

\* C6: a clause that references a column outside the allow-list is rejected
\* by the accessor and never executed against the store.
C6_OffListClauseRejected ==
  (Called /\ ~ClauseAllowed(where_predicate)) =>
    /\ pc # "fetched"
    /\ outcome \notin {"df", "empty_df"}

\* C7: at most one model call and one store query, the model call complete
\* before the store step, and the TRN scope open only during the store step:
\* never while the model call is in progress, and closed on every exit.
C7_OneCallEachScopedStore ==
  /\ model_calls <= 1
  /\ store_queries <= 1
  /\ (trn \/ store_queries > 0) => llm = "replied"
  /\ llm = "pending" => ~trn
  /\ trn => pc \in {"in_trn", "fetched"}
  /\ pc = "done" => ~trn

\* the store raised inside the scope and the search ended with it closed
C7_Witness ==
  /\ pc = "done"
  /\ outcome = "StoreError"
  /\ model_calls = 1
  /\ store_queries = 1
  /\ ~trn

\* C8: the fallback returns, for every query, a clause with exactly two
\* placeholders and exactly two parameters, both the same wildcarded keyword
\* %keyword%, the keyword trimmed and lower-cased; for the empty query both
\* are %%.
C8_FallbackStructurallyValid ==
  path = "fallback" =>
    LET w == GetItem(sql_query, WHERE_CLAUSE)
        p == GetItem(sql_query, PARAMS)
    IN  /\ w.ok /\ p.ok
        /\ w.v.t = "str"
        /\ Count(w.v.s, PLACEHOLDER) = 2
        /\ p.v.t = "list"
        /\ Len(p.v.items) = 2
        /\ p.v.items[1] = p.v.items[2]
        /\ LET k == p.v.items[1] IN
           /\ k.t = "str"
           /\ Len(k.s) >= 2
           /\ k.s[1] = "%"
           /\ k.s[Len(k.s)] = "%"
           /\ LET inner == SubSeq(k.s, 2, Len(k.s) - 1) IN
              /\ Strip(inner) = inner
              /\ Lower(inner) = inner
              /\ user_query = <<>> => inner = <<>>

\* the empty query went down the fallback path and reached the accessor
\* with the two parameters %%
C8_Witness ==
  /\ path = "fallback"
  /\ user_query = <<>>
  /\ pc = "in_trn"
  /\ params = JList(<<JStr(<<"%", "%">>), JStr(<<"%", "%">>)>>)

\* %microbiome%
MICROBIOME_PARAM ==
  <<"%", "m", "i", "c", "r", "o", "b", "i", "o", "m", "e", "%">>

\* C9: for "studies about soil microbiome" with the model unavailable, the
\* filter passed to the accessor is the fallback clause with the parameters
\* %microbiome%, %microbiome%.
C9_SoilMicrobiomeFallback ==
  (user_query = Q_SOIL_MICROBIOME /\ llm = "failed" /\ pc = "done") =>
    /\ Called
    /\ custom_sql_where = JStr(FallbackClause)
    /\ params = JList(<<JStr(MICROBIOME_PARAM), JStr(MICROBIOME_PARAM)>>)

\* C10: each lookup handler answers an identifier that is no integer with a
\* 400 error body, and an integer absent from the store with a 404 error
\* body.
C10_LookupErrorResponses ==
  handler # "none" =>
    /\ ~IsPyInt(study_id) => (status = 400 /\ body.kind = "invalid_id")
    /\ (IsPyInt(study_id) /\ PyInt(study_id) \notin StoredStudies) =>
         (status = 404 /\ body.kind = "not_found")

====
